---- MODULE Spec2Model ----
(***************************************************************************)
(* fetch_plan_from_tfc (scripts/fetch_tfc_plan.py): one invocation of the  *)
(* plan fetcher as a state machine.  Step 1 finds the workspace, Step 2    *)
(* resolves the run to use (Run Matcher), Step 3 waits for the run's plan  *)
(* and extracts its plan id (Completion Poller), Step 4 fetches the plan   *)
(* document.  Every request to the planning service is answered by the     *)
(* environment: a transport failure (RequestException) or a document.      *)
(***************************************************************************)
EXTENDS Integers, Sequences, FiniteSets, TLC

(* ------------------------------ bounds -------------------------------- *)

\* Longest run list the service returns.
MaxRuns == 2
\* Largest --max-wait-minutes argument.
MaxWait == 1

(* ------------------------- program constants -------------------------- *)

\* max_retries = max_wait_minutes * 6
ChecksPerMinute == 6
\* time.sleep(10)
PollInterval == 10

\* Python's None, and the truth value of an optional string argument.
None == "None"
Truthy(v) == v # None /\ v # ""

\* The status lists the code tests membership in.
PlanReady == {"planned", "planned_and_finished", "applied", "completed"}
InProgress == {"pending", "planning", "cost_estimating"}
FailedStates == {"errored", "canceled", "discarded"}

\* str() of a pull-request number of the ingress attributes (a JSON integer).
PyStr(n) == ToString(n)

(* --------------------------- the environment -------------------------- *)

\* What a run of the run list says about where it comes from: the run's
\* is-speculative attribute, whether it has a configuration-version
\* relationship, and that configuration version's ingress attributes
\* (has_pr / has_branch: the key is present).
Origins ==
    { [is_speculative |-> sp, has_cv |-> TRUE, has_ingress |-> TRUE,
       has_pr |-> TRUE, pr |-> p, has_branch |-> TRUE, branch |-> b] :
         sp \in BOOLEAN, p \in {7}, b \in {"feat"} }
    \cup
    { [is_speculative |-> TRUE, has_cv |-> TRUE, has_ingress |-> TRUE,
       has_pr |-> TRUE, pr |-> 8, has_branch |-> TRUE, branch |-> "main"],
      [is_speculative |-> TRUE, has_cv |-> TRUE, has_ingress |-> TRUE,
       has_pr |-> TRUE, pr |-> 7, has_branch |-> TRUE, branch |-> "main"],
      [is_speculative |-> TRUE, has_cv |-> FALSE, has_ingress |-> FALSE,
       has_pr |-> FALSE, pr |-> 0, has_branch |-> FALSE, branch |-> ""] }

\* Statuses of the runs of the run list: one plan-ready, one in progress, one
\* neither.
ListStatuses == {"planned", "planning", "errored"}

\* Statuses a status check of the selected run returns; "plan_queued" is a
\* status of the service that is in none of the code's lists.
CheckStatuses == {"planned", "applied", "planning", "pending",
                  "errored", "canceled", "plan_queued"}

\* Shapes of data.relationships of a run document.  Every run document has
\* data and data.attributes, as the service's API defines it: a document
\* without them (the KeyError handler of lines 227-230) is not sent.
RelShapes == {"no_relationships", "no_plan", "plan_data_null",
              "plan_data_no_id", "plan_with_id"}

RunResponses == [status : CheckStatuses, rels : RelShapes]

\* created-at of the runs of one list: timestamps of one fixed format, whose
\* order as strings is their order in time; two instants, so that runs of a
\* list are created at the same instant or at different ones.
Times == {1, 2}

RunId(k) == "run-" \o ToString(k)

\* One run of the list at position k.
MkRun(k, o, t, s) ==
    [id |-> RunId(k), origin |-> o, created_at |-> t, status |-> s]

\* The service lists the runs of a workspace most recent first.
RecencyOrdered(ts) ==
    \A k \in DOMAIN ts : k > 1 => ts[k - 1] >= ts[k]

RunListsOfLen(n) ==
    { [k \in 1..n |-> MkRun(k, os[k], ts[k], ss[k])] :
        os \in [1..n -> Origins],
        ts \in { f \in [1..n -> Times] : RecencyOrdered(f) },
        ss \in [1..n -> ListStatuses] }

RunLists == UNION { RunListsOfLen(n) : n \in 0..MaxRuns }

(* ------------------------------- state -------------------------------- *)

VARIABLES
    run_id, pr_number, branch, max_wait_minutes,   \* the arguments
    pc,                \* where the invocation is
    runs_data,         \* runs_data["data"]
    i,                 \* position of the for loop over runs_data["data"]
    matching_runs,
    run_id_to_use,
    run_url,
    run_status,        \* status of the last run document
    run_rels,          \* relationships of the last run document
    max_retries, retry_count,
    plan_id,
    outcome,           \* how the invocation ended
    outcome_status,    \* the run status its message carries
    exit_status,
    requests,          \* requests issued so far, by kind
    slept,             \* time units spent in time.sleep
    listed,            \* length of the run list received, -1 before it
    cv_failed,         \* runs whose configuration-version lookup failed
    first_status,      \* status returned by the first status check
    seen_terminal      \* a status check returned a terminal status

\* The state of analyze_plan.py, the second program of the repository.
VARIABLES
    main_pc,             \* where main() is
    severity_threshold,  \* args.severity_threshold
    fail_level,          \* args.fail_level
    plan_data,           \* the loaded plan document
    changes,             \* extract_plan_changes(plan_data)
    summary,             \* generate_plan_summary(plan_data)
    oracle,              \* what model.generate_content did
    issues,              \* analyze_plan_with_gemini(...)
    report,              \* generate_markdown_report(...)
    highest_severity,    \* get_highest_severity(issues)
    main_exit,           \* the exit status of main()
    label,               \* the argument s of a call of Severity.from_string
    member               \* the member of Severity it returns

analyzer == <<main_pc, severity_threshold, fail_level, plan_data, changes,
              summary, oracle, issues, report, highest_severity, main_exit,
              label, member>>

vars == <<run_id, pr_number, branch, max_wait_minutes, pc, runs_data, i,
          matching_runs, run_id_to_use, run_url, run_status, run_rels,
          max_retries, retry_count, plan_id, outcome, outcome_status, exit_status,
          requests, slept, listed, cv_failed, first_status, seen_terminal,
          analyzer>>

args == <<run_id, pr_number, branch, max_wait_minutes>>
step2 == <<runs_data, i, matching_runs, listed, cv_failed>>
step3 == <<run_url, run_status, run_rels, max_retries, retry_count,
           first_status, seen_terminal>>

(* ------------------- analyze_plan.py: values and inputs ---------------- *)

\* Largest number of elements of the array the oracle answers with.
MaxIssues == 2
\* Largest number of entries of resource_changes in a plan document.
MaxChanges == 2

\* Strings whose letter case matters are sequences of characters.
UpperCase == <<"A", "B", "C", "D", "E", "F", "G", "H", "I", "J", "K", "L", "M",
               "N", "O", "P", "Q", "R", "S", "T", "U", "V", "W", "X", "Y", "Z">>
LowerCase == <<"a", "b", "c", "d", "e", "f", "g", "h", "i", "j", "k", "l", "m",
               "n", "o", "p", "q", "r", "s", "t", "u", "v", "w", "x", "y", "z">>

\* str.lower() and str.upper().
Recase(s, from, to) ==
    [k \in 1..Len(s) |->
        IF \E n \in 1..Len(from) : from[n] = s[k]
        THEN to[CHOOSE n \in 1..Len(from) : from[n] = s[k]]
        ELSE s[k]]

lower(s) == Recase(s, UpperCase, LowerCase)
upper(s) == Recase(s, LowerCase, UpperCase)

low == <<"l", "o", "w">>
medium == <<"m", "e", "d", "i", "u", "m">>
high == <<"h", "i", "g", "h">>
critical == <<"c", "r", "i", "t", "i", "c", "a", "l">>
none == <<"n", "o", "n", "e">>

\* Lines 10-14: the members of Severity and their values.
SeverityValue == [LOW |-> 0, MEDIUM |-> 1, HIGH |-> 2, CRITICAL |-> 3]

\* Mutant of from_string: the label is looked up as it is written.
from_string_CaseSensitive(s) ==
    IF s = low THEN "LOW"
    ELSE IF s = medium THEN "MEDIUM"
    ELSE IF s = high THEN "HIGH"
    ELSE IF s = critical THEN "CRITICAL"
    ELSE "LOW"

\* Lines 16-23: Severity.from_string.
from_string(s) ==
    LET l == lower(s) IN
    IF l = low THEN "LOW"
    ELSE IF l = medium THEN "MEDIUM"
    ELSE IF l = high THEN "HIGH"
    ELSE IF l = critical THEN "CRITICAL"
    ELSE "LOW"

\* Lines 323-326: the choices of --severity-threshold and --fail-level.
LevelChoices == {low, medium, high, critical}

\* A key that a dict does not have.
Missing == "<missing>"

\* The value under 'severity': absent, a string, or a value that is not a
\* string (null, a number).
SevAbsent == [present |-> FALSE, string |-> FALSE, text |-> <<>>]
SevNotString == [present |-> TRUE, string |-> FALSE, text |-> <<>>]
SevStr(l) == [present |-> TRUE, string |-> TRUE, text |-> l]

\* The severity labels the oracle writes: the four levels in several letter
\* cases, and one label that is none of them.
OracleLabels ==
    { <<"L", "O", "W">>, medium, <<"H", "I", "G", "H">>,
      <<"C", "r", "i", "t", "i", "c", "a", "l">>, <<"i", "n", "f", "o">> }

\* An element of a decoded JSON value: a dict, or anything else.
NonObject ==
    [object |-> FALSE, severity |-> SevAbsent,
     resource_type |-> Missing, resource_name |-> Missing]

EmptyObject ==
    [object |-> TRUE, severity |-> SevAbsent,
     resource_type |-> Missing, resource_name |-> Missing]

OracleObject(sev) ==
    [object |-> TRUE, severity |-> sev,
     resource_type |-> "aws_s3_bucket", resource_name |-> "logs"]

OracleElements ==
    { OracleObject(SevStr(l)) : l \in OracleLabels }
    \cup { OracleObject(SevNotString), EmptyObject, NonObject }

\* What json.loads returns: an array, a dict (iterating it gives its keys),
\* a string (iterating it gives its characters) or a scalar.
JsonArrays(max) ==
    UNION { { [kind |-> "array", items |-> a] : a \in [1..n -> OracleElements] }
            : n \in 0..max }

JsonOthers ==
    { [kind |-> "object", items |-> <<>>],
      [kind |-> "object", items |-> <<NonObject>>],
      [kind |-> "string", items |-> <<NonObject>>],
      [kind |-> "scalar", items |-> <<>>] }

\* A piece of text is what json.loads makes of it.
InvalidText == [valid |-> FALSE, value |-> [kind |-> "scalar", items |-> <<>>]]
JsonText(v) == [valid |-> TRUE, value |-> v]
Texts(max) ==
    {InvalidText} \cup { JsonText(v) : v \in JsonArrays(max) \cup JsonOthers }

StartsWithObject(t) ==
    /\ t.valid
    /\ t.value.kind = "array"
    /\ t.value.items # <<>>
    /\ t.value.items[1].object

\* response.text as the two searches of lines 165 and 170 see it: the text
\* inside the first ```json fence, the text from the first "[ {" to the last
\* "} ]", and the whole text.
NoMatch == [found |-> FALSE, text |-> InvalidText]
Found(t) == [found |-> TRUE, text |-> t]

Contents(max) ==
    { [fenced |-> Found(t), array |-> NoMatch, whole |-> InvalidText]
        : t \in Texts(max) }
    \cup { [fenced |-> NoMatch,
            array |-> IF StartsWithObject(t) THEN Found(t) ELSE NoMatch,
            whole |-> t] : t \in Texts(max) }
    \cup { [fenced |-> NoMatch, array |-> Found(t), whole |-> InvalidText]
            : t \in { u \in Texts(max) : StartsWithObject(u) } }

NoContent == [fenced |-> NoMatch, array |-> NoMatch, whole |-> InvalidText]

\* Line 156: model.generate_content either raises or returns a response.
NotCalled == [called |-> FALSE, raised |-> FALSE, content |-> NoContent]
CallRaised == [called |-> TRUE, raised |-> TRUE, content |-> NoContent]
Responded(c) == [called |-> TRUE, raised |-> FALSE, content |-> c]
OracleOutcomes(max) == {CallRaised} \cup { Responded(c) : c \in Contents(max) }

\* The lists of actions of an entry of resource_changes; an entry without
\* 'change' or without 'actions' reads as the empty list.
ActionLists ==
    { <<>>, <<"no-op">>, <<"create">>, <<"read">>, <<"update">>, <<"replace">>,
      <<"delete">>, <<"delete", "create">>, <<"create", "delete">>,
      <<"replace", "update">>, <<"delete", "update">>, <<"delete", "replace">> }

ResourceType == "aws_instance"
ResourceName(k) == "r" \o ToString(k)

ChangeEntry(k, a, has_address) ==
    [type |-> ResourceType, name |-> ResourceName(k), actions |-> a,
     address |-> IF has_address THEN "module.app." \o ResourceName(k)
                 ELSE Missing]

ResourceChangesOfLen(n) ==
    { [k \in 1..n |-> ChangeEntry(k, as[k], ad[k])] :
        as \in [1..n -> ActionLists], ad \in [1..n -> BOOLEAN] }

\* A plan document: {} (which is falsy), a document without
\* resource_changes, or a document with the list.
EmptyDocument ==
    [truthy |-> FALSE, has_resource_changes |-> FALSE, resource_changes |-> <<>>]
NoChangesDocument ==
    [truthy |-> TRUE, has_resource_changes |-> FALSE, resource_changes |-> <<>>]
PlanDocument(rc) ==
    [truthy |-> TRUE, has_resource_changes |-> TRUE, resource_changes |-> rc]

PlanDocuments(max) ==
    {EmptyDocument, NoChangesDocument}
    \cup UNION { { PlanDocument(rc) : rc \in ResourceChangesOfLen(n) }
                 : n \in 0..max }

\* The plan documents of a whole run of main().
MainPlanDocuments ==
    { EmptyDocument,
      PlanDocument(<<ChangeEntry(1, <<"create">>, FALSE),
                     ChangeEntry(2, <<"no-op">>, TRUE)>>) }

\* Lines 73-78.
EmptySummary ==
    [add |-> <<>>, change |-> <<>>, delete |-> <<>>,
     totals |-> [add |-> 0, change |-> 0, delete |-> 0]]

NoReport ==
    [written |-> FALSE, has_plan_summary |-> FALSE, plan_summary |-> EmptySummary,
     total |-> 0, severity_counts |-> <<>>, findings |-> <<>>]

\* analyze_plan.py is not running.
MainIdle ==
    /\ main_pc = "idle"
    /\ severity_threshold = medium
    /\ fail_level = high
    /\ plan_data = EmptyDocument
    /\ changes = <<>>
    /\ summary = EmptySummary
    /\ oracle = NotCalled
    /\ issues = <<>>
    /\ report = NoReport
    /\ highest_severity = none
    /\ main_exit = -1
    /\ label = <<>>
    /\ member = None

Init ==
    /\ MainIdle
    /\ run_id \in {None, "run-x"}
    /\ pr_number \in {None, "7"}
    /\ branch \in {None, "feat"}
    /\ max_wait_minutes \in 0..MaxWait
    /\ pc = "workspace"
    /\ runs_data = <<>>
    /\ i = 1
    /\ matching_runs = <<>>
    /\ run_id_to_use = None
    /\ run_url = None
    /\ run_status = None
    /\ run_rels = None
    /\ max_retries = 0
    /\ retry_count = 0
    /\ plan_id = None
    /\ outcome = "running"
    /\ outcome_status = None
    /\ exit_status = -1
    /\ requests = [workspace |-> 0, runs |-> 0, config_version |-> 0,
                   run |-> 0, plan |-> 0]
    /\ slept = 0
    /\ listed = -1
    /\ cv_failed = {}
    /\ first_status = None
    /\ seen_terminal = FALSE

\* One more request of kind k.
Issue(k) == requests' = [requests EXCEPT ![k] = @ + 1]

\* sys.exit(1) after a message carrying status st (None: no status).
Exit1(o, st) ==
    /\ pc' = "done"
    /\ outcome' = o
    /\ outcome_status' = st
    /\ exit_status' = 1

Running == UNCHANGED <<outcome, outcome_status, exit_status>>

(* ---------------------- Step 1: the workspace ------------------------- *)

\* Mutant of GetWorkspace: a request that fails is issued again.
GetWorkspace_RetriesOnFailure ==
    /\ pc = "workspace"
    /\ Issue("workspace")
    /\ \/ /\ pc' = "resolve"
          /\ Running
       \/ /\ pc' = "workspace"
          /\ Running
    /\ UNCHANGED <<analyzer, args, step2, run_id_to_use, step3, plan_id, slept>>

\* Lines 36-48: one request; a RequestException ends the invocation.
GetWorkspace ==
    /\ pc = "workspace"
    /\ Issue("workspace")
    /\ \/ /\ pc' = "resolve"
          /\ Running
       \/ Exit1("TransportError", None)
    /\ UNCHANGED <<analyzer, args, step2, run_id_to_use, step3, plan_id, slept>>

(* ---------------------- Step 2: the Run Matcher ----------------------- *)

\* Mutant of UseRunId: the run list is requested before the given id is used.
UseRunId_ListsRuns ==
    /\ pc = "resolve"
    /\ Truthy(run_id)
    /\ Issue("runs")
    /\ run_id_to_use' = run_id
    /\ pc' = "step3"
    /\ Running
    /\ UNCHANGED <<analyzer, args, step2, step3, plan_id, slept>>

\* Lines 51-53: a run id given on the command line is used as it is.
UseRunId ==
    /\ pc = "resolve"
    /\ Truthy(run_id)
    /\ run_id_to_use' = run_id
    /\ pc' = "step3"
    /\ Running
    /\ UNCHANGED <<analyzer, args, step2, step3, plan_id, requests, slept>>

\* Mutant of ListRuns: an empty run list is not tested for.
ListRuns_NoEmptyTest ==
    /\ pc = "resolve"
    /\ ~Truthy(run_id)
    /\ Issue("runs")
    /\ \/ /\ Exit1("TransportError", None)
          /\ UNCHANGED step2
       \/ \E data \in RunLists :
            /\ runs_data' = data
            /\ matching_runs' = <<>>
            /\ i' = 1
            /\ listed' = Len(data)
            /\ UNCHANGED cv_failed
            /\ pc' = "match"
            /\ Running
    /\ UNCHANGED <<analyzer, args, run_id_to_use, step3, plan_id, slept>>

\* Lines 55-66: the run list; no runs at all is fatal.
ListRuns ==
    /\ pc = "resolve"
    /\ ~Truthy(run_id)
    /\ Issue("runs")
    /\ \/ /\ Exit1("TransportError", None)
          /\ UNCHANGED step2
       \/ \E data \in RunLists :
            IF data = <<>>
            THEN /\ Exit1("NoRunsFound", None)
                 /\ listed' = 0
                 /\ UNCHANGED <<runs_data, i, matching_runs, cv_failed>>
            ELSE /\ runs_data' = data
                 /\ matching_runs' = <<>>
                 /\ i' = 1
                 /\ listed' = Len(data)
                 /\ UNCHANGED cv_failed
                 /\ pc' = "match"
                 /\ Running
    /\ UNCHANGED <<analyzer, args, run_id_to_use, step3, plan_id, slept>>

\* Line 69: if pr_number or branch.
HasSelector == Truthy(pr_number) \/ Truthy(branch)

MatchEntry(run) ==
    [run_id |-> run.id, created_at |-> run.created_at, status |-> run.status]

\* Lines 93-113: what a run whose configuration version was fetched appends
\* to matching_runs: one entry if the pull-request number matches, and one
\* if the branch matches.
PrMatches(run, pr) ==
    /\ Truthy(pr)
    /\ run.origin.has_ingress
    /\ run.origin.has_pr
    /\ PyStr(run.origin.pr) = pr

BranchMatches(run, br) ==
    /\ Truthy(br)
    /\ run.origin.has_ingress
    /\ run.origin.has_branch
    /\ run.origin.branch = br

Appended(run, pr, br) ==
    (IF PrMatches(run, pr) THEN <<MatchEntry(run)>> ELSE <<>>)
    \o (IF BranchMatches(run, br) THEN <<MatchEntry(run)>> ELSE <<>>)

\* Mutant of ExamineRun: a configuration-version lookup that fails ends the
\* invocation.
ExamineRun_LookupFailureFatal ==
    /\ pc = "match"
    /\ HasSelector
    /\ i <= Len(runs_data)
    /\ LET run == runs_data[i] IN
         IF run.origin.is_speculative /\ run.origin.has_cv
         THEN /\ Issue("config_version")
              /\ \/ /\ matching_runs' =
                         matching_runs \o Appended(run, pr_number, branch)
                    /\ UNCHANGED <<cv_failed, pc>>
                    /\ Running
                 \/ /\ cv_failed' = cv_failed \cup {run.id}
                    /\ UNCHANGED matching_runs
                    /\ Exit1("TransportError", None)
         ELSE /\ UNCHANGED <<matching_runs, requests, cv_failed, pc>>
              /\ Running
    /\ i' = i + 1
    /\ UNCHANGED <<analyzer, args, runs_data, listed, run_id_to_use, step3, plan_id,
                   slept>>

\* Lines 73-116: one iteration of the loop over the runs.  A run that is not
\* speculative or has no configuration version is passed over without a
\* request; a configuration-version lookup that fails is passed over too.
ExamineRun ==
    /\ pc = "match"
    /\ HasSelector
    /\ i <= Len(runs_data)
    /\ LET run == runs_data[i] IN
         IF run.origin.is_speculative /\ run.origin.has_cv
         THEN /\ Issue("config_version")
              /\ \/ /\ matching_runs' =
                         matching_runs \o Appended(run, pr_number, branch)
                    /\ UNCHANGED cv_failed
                 \/ /\ cv_failed' = cv_failed \cup {run.id}
                    /\ UNCHANGED matching_runs
         ELSE UNCHANGED <<matching_runs, requests, cv_failed>>
    /\ i' = i + 1
    /\ Running
    /\ UNCHANGED <<analyzer, args, pc, runs_data, listed, run_id_to_use, step3, plan_id,
                   slept>>

\* Line 121: matching_runs.sort(key=created_at, reverse=True), a stable sort:
\* entries with equal keys keep their order.
RECURSIVE InsertByCreatedAt(_, _)
InsertByCreatedAt(x, s) ==
    IF s = <<>> THEN <<x>>
    ELSE IF Head(s).created_at >= x.created_at
         THEN <<Head(s)>> \o InsertByCreatedAt(x, Tail(s))
         ELSE <<x>> \o s

\* Mutant of SortByCreatedAtDesc: reverse=True is missing.
RECURSIVE InsertAscending(_, _)
InsertAscending(x, s) ==
    IF s = <<>> THEN <<x>>
    ELSE IF Head(s).created_at <= x.created_at
         THEN <<Head(s)>> \o InsertAscending(x, Tail(s))
         ELSE <<x>> \o s

RECURSIVE SortAscendingFrom(_, _, _)
SortAscendingFrom(s, k, acc) ==
    IF k > Len(s) THEN acc
    ELSE SortAscendingFrom(s, k + 1, InsertAscending(s[k], acc))

SortByCreatedAt_Ascending(s) == SortAscendingFrom(s, 1, <<>>)

RECURSIVE SortFrom(_, _, _)
SortFrom(s, k, acc) ==
    IF k > Len(s) THEN acc
    ELSE SortFrom(s, k + 1, InsertByCreatedAt(s[k], acc))

SortByCreatedAtDesc(s) == SortFrom(s, 1, <<>>)

\* Lines 124-136: the scan of the sorted matches; the results are positions
\* of the list, 0 for None.
RECURSIVE ScanMatches(_, _, _)
ScanMatches(runs, k, in_progress_run) ==
    IF k > Len(runs)
    THEN [completed_run |-> 0, in_progress_run |-> in_progress_run]
    ELSE IF runs[k].status \in PlanReady
         THEN [completed_run |-> k, in_progress_run |-> in_progress_run]
         ELSE IF runs[k].status \in InProgress /\ in_progress_run = 0
              THEN ScanMatches(runs, k + 1, k)
              ELSE ScanMatches(runs, k + 1, in_progress_run)

\* Mutant of ChooseMatching: a run in progress is not preferred to the latest
\* match.
ChooseMatching_NoInProgress(sorted) ==
    LET found == ScanMatches(sorted, 1, 0) IN
    IF found.completed_run # 0 THEN sorted[found.completed_run].run_id
    ELSE sorted[1].run_id

\* Lines 138-148: the run chosen among the sorted matches.
ChooseMatching(sorted) ==
    LET found == ScanMatches(sorted, 1, 0) IN
    IF found.completed_run # 0 THEN sorted[found.completed_run].run_id
    ELSE IF found.in_progress_run # 0
         THEN sorted[found.in_progress_run].run_id
         ELSE sorted[1].run_id

\* Mutant of LatestRun: the last run of the list.
LatestRun_Last(data) == data[Len(data)].id

\* Line 153: the latest run of the whole list.
LatestRun(data) == data[1].id

\* Lines 118-154, after the loop.
SelectRun ==
    /\ pc = "match"
    /\ ~HasSelector \/ i > Len(runs_data)
    /\ IF matching_runs # <<>>
       THEN /\ matching_runs' = SortByCreatedAtDesc(matching_runs)
            /\ run_id_to_use' = ChooseMatching(matching_runs')
       ELSE /\ run_id_to_use' = LatestRun(runs_data)
            /\ UNCHANGED matching_runs
    /\ pc' = "step3"
    /\ Running
    /\ UNCHANGED <<analyzer, args, runs_data, i, listed, cv_failed, step3, plan_id,
                   requests, slept>>

(* -------------------- Step 3: the Completion Poller ------------------- *)

\* Mutant of MaxRetries: one retry per time unit instead of one per sleep.
MaxRetries_PerTimeUnit(minutes) == minutes * ChecksPerMinute * PollInterval

\* Line 176.
MaxRetries(minutes) == minutes * ChecksPerMinute

\* Mutant of NotReady: only "planned" counts as ready.
NotReady_OnlyPlanned(status) == status # "planned"

\* Lines 171, 200: the plan is not ready.
NotReady(status) == status \notin PlanReady

\* Mutant of KeepWaiting: the count is compared with <=.
KeepWaiting_OffByOne(count, retries, status) ==
    count <= retries /\ NotReady(status)

\* Line 180: the condition of the while loop.
KeepWaiting(count, retries, status) ==
    count < retries /\ NotReady(status)

\* A terminal status of the run: its plan is ready, or it failed.
Terminal(status) == status \in PlanReady \cup FailedStates

\* Mutant of FailsEarly: every status that is not a known status of a run in
\* progress or of a ready plan makes the loop fail.
FailsEarly_UnknownToo(status) == status \notin PlanReady \cup InProgress

\* Line 196: the status that makes an iteration of the loop fail early.
FailsEarly(status) == status \in FailedStates

\* Line 163: the address of the selected run.  Steps 3 and 4 read nothing of
\* runs_data, matching_runs and the loop position, which end here, and what
\* was recorded about the run list with them.
BuildRunUrl ==
    /\ pc = "step3"
    /\ run_url' = "runs/" \o run_id_to_use
    /\ runs_data' = <<>>
    /\ matching_runs' = <<>>
    /\ i' = 1
    /\ cv_failed' = {}
    /\ listed' = -1
    /\ pc' = "status"
    /\ Running
    /\ UNCHANGED <<analyzer, args, run_id_to_use, run_status, run_rels,
                   max_retries, retry_count, first_status, seen_terminal,
                   plan_id, requests, slept>>

\* Lines 164-177: the first status check of the selected run.
GetRunStatus ==
    /\ pc = "status"
    /\ Issue("run")
    /\ \/ /\ Exit1("TransportError", None)
          /\ UNCHANGED <<run_status, run_rels, max_retries, retry_count,
                         first_status, seen_terminal>>
       \/ \E response \in RunResponses :
            /\ run_status' = response.status
            /\ run_rels' = response.rels
            /\ first_status' = response.status
            /\ seen_terminal' = Terminal(response.status)
            /\ IF NotReady(response.status)
               THEN /\ max_retries' = MaxRetries(max_wait_minutes)
                    /\ retry_count' = 0
                    /\ pc' = "wait"
               ELSE /\ pc' = "extract"
                    /\ UNCHANGED <<max_retries, retry_count>>
            /\ Running
    /\ UNCHANGED <<analyzer, args, step2, run_id_to_use, run_url, plan_id, slept>>

\* Mutant of PollOnce: a failed run is not tested for inside the loop.
PollOnce_NoFailEarly ==
    /\ pc = "wait"
    /\ KeepWaiting(retry_count, max_retries, run_status)
    /\ slept' = slept + PollInterval
    /\ retry_count' = retry_count + 1
    /\ Issue("run")
    /\ \/ /\ Exit1("TransportError", None)
          /\ UNCHANGED <<run_status, run_rels, seen_terminal>>
       \/ \E response \in RunResponses :
            /\ run_status' = response.status
            /\ run_rels' = response.rels
            /\ seen_terminal' = (seen_terminal \/ Terminal(response.status))
            /\ pc' = "wait"
            /\ Running
    /\ UNCHANGED <<analyzer, args, step2, run_id_to_use, run_url, max_retries,
                   first_status, plan_id>>

\* Lines 180-198: one iteration of the wait loop: sleep, count, check again.
PollOnce ==
    /\ pc = "wait"
    /\ KeepWaiting(retry_count, max_retries, run_status)
    /\ slept' = slept + PollInterval
    /\ retry_count' = retry_count + 1
    /\ Issue("run")
    /\ \/ /\ Exit1("TransportError", None)
          /\ UNCHANGED <<run_status, run_rels, seen_terminal>>
       \/ \E response \in RunResponses :
            /\ run_status' = response.status
            /\ run_rels' = response.rels
            /\ seen_terminal' = (seen_terminal \/ Terminal(response.status))
            /\ IF FailsEarly(response.status)
               THEN Exit1("RunFailed", response.status)
               ELSE /\ pc' = "wait"
                    /\ Running
    /\ UNCHANGED <<analyzer, args, step2, run_id_to_use, run_url, max_retries,
                   first_status, plan_id>>

\* Mutant of ExitWait: the status is not tested after the loop.
ExitWait_NoTimeoutTest ==
    /\ pc = "wait"
    /\ ~KeepWaiting(retry_count, max_retries, run_status)
    /\ pc' = "extract"
    /\ Running
    /\ UNCHANGED <<analyzer, args, step2, run_id_to_use, step3, plan_id, requests,
                   slept>>

\* Lines 200-204: after the loop.
ExitWait ==
    /\ pc = "wait"
    /\ ~KeepWaiting(retry_count, max_retries, run_status)
    /\ IF NotReady(run_status)
       THEN Exit1("PollTimeout", run_status)
       ELSE /\ pc' = "extract"
            /\ Running
    /\ UNCHANGED <<analyzer, args, step2, run_id_to_use, step3, plan_id, requests,
                   slept>>

\* Mutant of PlanIdOf: plan data is not tested for an id.
PlanIdOf_NoIdCheck(rels) ==
    IF rels \in {"plan_with_id", "plan_data_no_id"} THEN "plan-1" ELSE None

\* Lines 207-220: the plan id of the run document, None if the document does
\* not link a plan.
PlanIdOf(rels) ==
    IF rels = "plan_with_id" THEN "plan-1" ELSE None

\* Lines 206-221.
ExtractPlanId ==
    /\ pc = "extract"
    /\ IF PlanIdOf(run_rels) = None
       THEN /\ Exit1("PlanLinkMissing", None)
            /\ UNCHANGED plan_id
       ELSE /\ plan_id' = PlanIdOf(run_rels)
            /\ pc' = "plan"
            /\ Running
    /\ UNCHANGED <<analyzer, args, step2, run_id_to_use, step3, requests, slept>>

(* --------------------- Step 4: the plan document ---------------------- *)

\* Lines 232-251, and main's sys.exit(0) at line 279.
GetPlanJson ==
    /\ pc = "plan"
    /\ Issue("plan")
    /\ \/ Exit1("TransportError", None)
       \/ /\ pc' = "done"
          /\ outcome' = "PlanFetched"
          /\ exit_status' = 0
          /\ UNCHANGED outcome_status
    /\ UNCHANGED <<analyzer, args, step2, run_id_to_use, step3, plan_id, slept>>

(* --------------------------- specification ---------------------------- *)

Next ==
    \/ GetWorkspace
    \/ UseRunId
    \/ ListRuns
    \/ ExamineRun
    \/ SelectRun
    \/ BuildRunUrl
    \/ GetRunStatus
    \/ PollOnce
    \/ ExitWait
    \/ ExtractPlanId
    \/ GetPlanJson

Spec == Init /\ [][Next]_vars

\* The steps of an invocation whose run id is given on the command line.
GivenRunNext ==
    \/ GetWorkspace
    \/ UseRunId
    \/ BuildRunUrl
    \/ GetRunStatus
    \/ PollOnce
    \/ ExitWait
    \/ ExtractPlanId
    \/ GetPlanJson

\* The invocations that are given a run id: Step 2 is lines 51-53 alone.  The
\* invocation runs on one thread that nothing else holds up: a step that can
\* be taken is taken.
GivenRunInit == Init /\ Truthy(run_id)

FairGivenRunSpec ==
    GivenRunInit /\ [][GivenRunNext]_vars /\ WF_vars(GivenRunNext)

(* ------------------------------ claims -------------------------------- *)

\* C1: whenever a status check of the selected run, the first one included,
\* returns errored, canceled or discarded, the invocation stops at once with
\* RunFailed carrying that status.
C1_FailedCheckStopsAtOnce ==
    run_status \in FailedStates =>
        /\ pc = "done"
        /\ outcome = "RunFailed"
        /\ outcome_status = run_status

\* C2: the wait loop makes at most max_wait_minutes * 6 iterations, each one
\* sleep of 10 units and one status request; when that many have passed and
\* no check returned a terminal status, the invocation ends with PollTimeout
\* carrying the last status, and no plan id is extracted.
C2_PollBudget ==
    /\ retry_count <= max_wait_minutes * ChecksPerMinute
    /\ slept = retry_count * PollInterval
    /\ requests.run <= 1 + retry_count
    /\ ( /\ pc = "done"
         /\ first_status # None
         /\ ~seen_terminal
         /\ outcome # "TransportError" )
       => /\ retry_count = max_wait_minutes * ChecksPerMinute
          /\ outcome = "PollTimeout"
          /\ outcome_status = run_status
          /\ exit_status = 1
          /\ plan_id = None
          /\ requests.plan = 0

C2_Witness ==
    /\ pc = "done"
    /\ outcome = "PollTimeout"
    /\ max_wait_minutes = 1
    /\ retry_count = ChecksPerMinute
    /\ ~seen_terminal
    /\ outcome_status = "planning"

\* C3: once the first status check is due, the poller ends, whatever the
\* service answers: with a plan id, or with RunFailed, PollTimeout,
\* PlanLinkMissing or a transport error; and the time slept never exceeds
\* max_wait_minutes.
C3_AwaitPlanTerminates ==
    /\ [](slept <= max_wait_minutes * ChecksPerMinute * PollInterval)
    /\ (pc = "status") ~>
          \/ plan_id # None
          \/ /\ pc = "done"
             /\ outcome \in {"RunFailed", "PollTimeout", "PlanLinkMissing",
                             "TransportError"}

C3_Witness ==
    /\ pc = "done"
    /\ outcome = "PollTimeout"
    /\ max_wait_minutes = 1
    /\ slept = ChecksPerMinute * PollInterval
    /\ first_status = "pending"
    /\ run_status = "pending"

\* C4: when the first status check returns a plan-ready status there is no
\* sleep and no second status request: the plan id is extracted from that
\* response.
C4_ZeroWait ==
    first_status \in PlanReady =>
        /\ slept = 0
        /\ retry_count = 0
        /\ requests.run = 1
        /\ run_status = first_status
        /\ pc \in {"extract", "plan", "done"}
        /\ outcome \in {"running", "PlanFetched", "PlanLinkMissing",
                        "TransportError"}
        /\ plan_id # None => run_rels = "plan_with_id"

C4_Witness ==
    /\ first_status = "applied"
    /\ pc = "plan"
    /\ plan_id = "plan-1"
    /\ requests.run = 1
    /\ max_wait_minutes = 1

\* C5: once a status check returned a plan-ready status, a run document whose
\* relationships name no plan id ends the invocation with PlanLinkMissing and
\* exit status 1, and the plan document is never requested.
C5_PlanLinkMissing ==
    (run_status \in PlanReady /\ run_rels # "plan_with_id") =>
        /\ plan_id = None
        /\ requests.plan = 0
        /\ pc \in {"wait", "extract", "done"}
        /\ pc = "done" => outcome = "PlanLinkMissing" /\ exit_status = 1

C5_Witness ==
    /\ pc = "done"
    /\ outcome = "PlanLinkMissing"
    /\ run_rels = "plan_data_no_id"
    /\ run_status = "planned"
    /\ retry_count > 0

(* The Run Matcher's result is in run_id_to_use when Step 3 begins, with    *)
(* the run list it was resolved from still in runs_data.                   *)

Resolved == pc = "step3" /\ ~Truthy(run_id)

\* A candidate matches the selector: it is speculative, its configuration
\* version was fetched, and its ingress attributes carry the requested
\* pull-request number or the requested branch.
MatchesSelector(run) ==
    /\ run.origin.is_speculative
    /\ run.origin.has_cv
    /\ run.id \notin cv_failed
    /\ run.origin.has_ingress
    /\ \/ /\ pr_number # None
          /\ run.origin.has_pr
          /\ ToString(run.origin.pr) = pr_number
       \/ /\ branch # None
          /\ run.origin.has_branch
          /\ run.origin.branch = branch

Matching == { k \in 1..Len(runs_data) : MatchesSelector(runs_data[k]) }

WithStatus(S, statuses) == { k \in S : runs_data[k].status \in statuses }

\* The candidates of S than which none of S is more recent.
MostRecent(S) ==
    { k \in S : \A j \in S : runs_data[j].created_at <= runs_data[k].created_at }

ReadyStatuses == {"planned", "planned_and_finished", "applied", "completed"}
InProgressStatuses == {"pending", "planning", "cost_estimating"}

ResolvedTo(S) == \E k \in S : run_id_to_use = runs_data[k].id

\* C6: with no run id given and at least one matching candidate, the result
\* is a most recent matching candidate that is plan-ready if there is one,
\* else a most recent matching candidate in progress if there is one, else a
\* most recent matching candidate.
C6_SelectionPriority ==
    (Resolved /\ Matching # {}) =>
        IF WithStatus(Matching, ReadyStatuses) # {}
        THEN ResolvedTo(MostRecent(WithStatus(Matching, ReadyStatuses)))
        ELSE IF WithStatus(Matching, InProgressStatuses) # {}
             THEN ResolvedTo(MostRecent(WithStatus(Matching, InProgressStatuses)))
             ELSE ResolvedTo(MostRecent(Matching))

\* A plan-ready match is chosen although a match in progress is more recent.
C6_Witness ==
    /\ Resolved
    /\ Len(runs_data) = 2
    /\ Matching = {1, 2}
    /\ runs_data[1].status = "planning"
    /\ runs_data[2].status = "planned"
    /\ runs_data[1].created_at > runs_data[2].created_at
    /\ run_id_to_use = runs_data[2].id

\* C7: with a matching candidate in progress and no matching candidate that
\* is plan-ready, the result is a matching candidate in progress.
C7_InProgressMatchBeforeOthers ==
    ( /\ Resolved
      /\ WithStatus(Matching, InProgressStatuses) # {}
      /\ WithStatus(Matching, ReadyStatuses) = {} )
    => ResolvedTo(WithStatus(Matching, InProgressStatuses))

\* The first run is completed, more recent and does not match.
C7_Witness ==
    /\ Resolved
    /\ Len(runs_data) = 2
    /\ Matching = {2}
    /\ runs_data[1].status = "planned"
    /\ runs_data[1].created_at > runs_data[2].created_at
    /\ runs_data[2].status = "planning"
    /\ run_id_to_use = runs_data[2].id

\* C8: with no run id given, a run list that is not empty, and no selector or
\* no matching candidate, the result is the first candidate of the list,
\* than which none is more recent.
C8_FallBackToLatest ==
    (Resolved /\ (~(pr_number # None \/ branch # None) \/ Matching = {})) =>
        /\ run_id_to_use = runs_data[1].id
        /\ 1 \in MostRecent(1..Len(runs_data))

\* A selector is given; the first run is not speculative, the second one is
\* speculative and its lookup failed.
C8_Witness ==
    /\ Resolved
    /\ pr_number = "7"
    /\ Len(runs_data) = 2
    /\ ~runs_data[1].origin.is_speculative
    /\ runs_data[1].status = "errored"
    /\ runs_data[2].id \in cv_failed
    /\ runs_data[2].status = "planned"
    /\ run_id_to_use = runs_data[1].id

\* C9: a run id given on the command line is the result, and neither the run
\* list nor a configuration version is requested.
C9_GivenRunIdIsUsed ==
    run_id # None =>
        /\ requests.runs = 0
        /\ requests.config_version = 0
        /\ listed = -1
        /\ run_id_to_use \in {None, run_id}
        /\ (pc \in {"step3", "status", "wait", "extract", "plan"}
              \/ requests.run > 0) => run_id_to_use = run_id

C9_Witness ==
    /\ run_id = "run-x"
    /\ pr_number = "7"
    /\ branch = "feat"
    /\ run_id_to_use = "run-x"
    /\ pc = "done"
    /\ outcome = "PlanFetched"

\* C10: an empty run list ends the invocation with NoRunsFound and exit
\* status 1; no configuration version, run status or plan document was
\* requested and nothing was slept.
C10_NoRunsFound ==
    listed = 0 =>
        /\ run_id = None
        /\ pc = "done"
        /\ outcome = "NoRunsFound"
        /\ exit_status = 1
        /\ requests.config_version = 0
        /\ requests.run = 0
        /\ requests.plan = 0
        /\ slept = 0

C10_Witness ==
    /\ listed = 0
    /\ outcome = "NoRunsFound"
    /\ pr_number = "7"
    /\ requests.runs = 1

(* What the Run Matcher returns for a run list when the candidates of      *)
(* `failed` are taken not to match: the matches of the other candidates,    *)
(* in list order, then the choice among them.                               *)
RECURSIVE MatchesWithout(_, _, _)
MatchesWithout(data, k, failed) ==
    IF k > Len(data) THEN <<>>
    ELSE (IF /\ data[k].origin.is_speculative
             /\ data[k].origin.has_cv
             /\ data[k].id \notin failed
          THEN Appended(data[k], pr_number, branch)
          ELSE <<>>) \o MatchesWithout(data, k + 1, failed)

ResolveWithout(data, failed) ==
    LET m == MatchesWithout(data, 1, failed) IN
    IF m # <<>> THEN ChooseMatching(SortByCreatedAtDesc(m))
    ELSE LatestRun(data)

Candidates == { k \in 1..Len(runs_data) :
                  runs_data[k].origin.is_speculative /\ runs_data[k].origin.has_cv }

\* C11: a configuration-version lookup that fails does not end the
\* invocation; every candidate of the list is still looked up, and the
\* result is the run id resolved from the same list when the candidates
\* whose lookup failed are taken not to match.
C11_FailedLookupIsNotFatal ==
    cv_failed # {} =>
        /\ outcome = "running"
        /\ pc \in {"match", "step3"}
        /\ Resolved =>
              /\ i = Len(runs_data) + 1
              /\ requests.config_version = Cardinality(Candidates)
              /\ run_id_to_use = ResolveWithout(runs_data, cv_failed)

\* The lookup of the first candidate failed; the second candidate, examined
\* after it, matches and is the result although the first one is more recent.
C11_Witness ==
    /\ Resolved
    /\ pr_number = "7"
    /\ Len(runs_data) = 2
    /\ cv_failed = {runs_data[1].id}
    /\ runs_data[1].origin.has_pr /\ runs_data[1].origin.pr = 7
    /\ runs_data[1].status = "planned"
    /\ runs_data[1].created_at > runs_data[2].created_at
    /\ Matching = {2}
    /\ run_id_to_use = runs_data[2].id

(* ------------------- analyze_plan.py: the Plan Differ ------------------ *)

\* x in list.
Contains(list, x) == \E k \in 1..Len(list) : list[k] = x

\* Mutant of IsNoOp: no entry is passed over.
IsNoOp_Never(actions) == FALSE

\* Lines 50 and 89: actions == ['no-op'].
IsNoOp(actions) == actions = <<"no-op">>

\* Lines 53-67: the change appended for an entry (before and after, which
\* no decision depends on, are left out).
ChangeOf(change) ==
    [resource_type |-> change.type, resource_name |-> change.name,
     actions |-> change.actions]

RECURSIVE ChangesFrom(_, _)
ChangesFrom(rc, k) ==
    IF k > Len(rc) THEN <<>>
    ELSE (IF IsNoOp(rc[k].actions) THEN <<>> ELSE <<ChangeOf(rc[k])>>)
         \o ChangesFrom(rc, k + 1)

\* Lines 42-69.
extract_plan_changes(doc) ==
    IF doc.has_resource_changes THEN ChangesFrom(doc.resource_changes, 1)
    ELSE <<>>

\* Line 86: change.get('address', f"{resource_type}.{resource_name}").
AddressOf(change) ==
    IF change.address # Missing THEN change.address
    ELSE change.type \o "." \o change.name

Resource(change) ==
    [address |-> AddressOf(change), type |-> change.type, name |-> change.name,
     action |-> Missing]

\* Mutant of Categorize: a deletion is looked for first.
Categorize_DeleteFirst(change, s) ==
    LET actions == change.actions IN
    IF IsNoOp(actions) THEN s
    ELSE IF Contains(actions, "delete")
    THEN [s EXCEPT !.delete = Append(@, Resource(change)),
                   !.totals.delete = @ + 1]
    ELSE IF Contains(actions, "create")
    THEN [s EXCEPT !.add = Append(@, Resource(change)),
                   !.totals.add = @ + 1]
    ELSE IF Contains(actions, "update") \/ Contains(actions, "replace")
    THEN LET action_type == IF Contains(actions, "update") THEN "update"
                            ELSE "replace" IN
         [s EXCEPT !.change = Append(@, [Resource(change) EXCEPT
                                            !.action = action_type]),
                   !.totals.change = @ + 1]
    ELSE s

\* Lines 88-115: one entry of resource_changes.
Categorize(change, s) ==
    LET actions == change.actions IN
    IF IsNoOp(actions) THEN s
    ELSE IF Contains(actions, "create")
    THEN [s EXCEPT !.add = Append(@, Resource(change)),
                   !.totals.add = @ + 1]
    ELSE IF Contains(actions, "update") \/ Contains(actions, "replace")
    THEN LET action_type == IF Contains(actions, "update") THEN "update"
                            ELSE "replace" IN
         [s EXCEPT !.change = Append(@, [Resource(change) EXCEPT
                                            !.action = action_type]),
                   !.totals.change = @ + 1]
    ELSE IF Contains(actions, "delete")
    THEN [s EXCEPT !.delete = Append(@, Resource(change)),
                   !.totals.delete = @ + 1]
    ELSE s

RECURSIVE SummaryFrom(_, _, _)
SummaryFrom(rc, k, s) ==
    IF k > Len(rc) THEN s
    ELSE SummaryFrom(rc, k + 1, Categorize(rc[k], s))

\* Lines 71-117.
generate_plan_summary(doc) ==
    IF doc.has_resource_changes
    THEN SummaryFrom(doc.resource_changes, 1, EmptySummary)
    ELSE EmptySummary

(* ---------------- analyze_plan.py: the Finding Normalizer -------------- *)

\* Lines 165-174: the text handed to json.loads.
JsonCandidate(content) ==
    IF content.fenced.found THEN content.fenced.text
    ELSE IF content.array.found THEN content.array.text
    ELSE content.whole

\* issue.get('severity', default).
SeverityOr(issue, default) ==
    IF issue.severity.present THEN issue.severity ELSE SevStr(default)

\* Lines 191-199 and 203-210: the two findings the analyzer makes itself.
FallbackFinding ==
    [object |-> TRUE, severity |-> SevStr(<<"M", "E", "D", "I", "U", "M">>),
     resource_type |-> "general", resource_name |-> "plan-wide"]

ErrorFinding ==
    [object |-> TRUE, severity |-> SevStr(<<"H", "I", "G", "H">>),
     resource_type |-> "error", resource_name |-> "analysis-failed"]

\* Lines 182-185: the loop over the decoded value.  An element that is not a
\* dict has no 'get', and a severity that is not a string has no 'lower':
\* either raises AttributeError.
RECURSIVE FilterFrom(_, _, _, _)
FilterFrom(items, k, threshold, filtered_issues) ==
    IF k > Len(items) THEN [raised |-> FALSE, issues |-> filtered_issues]
    ELSE IF ~items[k].object \/ ~SeverityOr(items[k], <<"L", "O", "W">>).string
    THEN [raised |-> TRUE, issues |-> <<>>]
    ELSE LET issue_severity ==
                 from_string(SeverityOr(items[k], <<"L", "O", "W">>).text) IN
         FilterFrom(items, k + 1, threshold,
                    IF SeverityValue[issue_severity] >= SeverityValue[threshold]
                    THEN Append(filtered_issues, items[k])
                    ELSE filtered_issues)

\* Mutant of analyze_plan_with_gemini: the finding made for a failed call is
\* filtered by the threshold like the others.
analyze_plan_with_gemini_ErrorFiltered(o, floor) ==
    IF o.raised
    THEN FilterFrom(<<ErrorFinding>>, 1, from_string(floor),
                    <<>>).issues
    ELSE LET t == JsonCandidate(o.content) IN
         IF ~t.valid THEN <<FallbackFinding>>
         ELSE IF t.value.kind = "scalar" THEN <<ErrorFinding>>
         ELSE LET r == FilterFrom(t.value.items, 1,
                                  from_string(floor), <<>>) IN
              IF r.raised THEN <<ErrorFinding>> ELSE r.issues

\* Lines 155-210.  The outer handler (line 201) catches every exception but
\* the JSONDecodeError of line 189: the one raised by generate_content, the
\* TypeError of iterating a scalar and the AttributeError of the loop.
analyze_plan_with_gemini(o, floor) ==
    IF o.raised THEN <<ErrorFinding>>
    ELSE LET t == JsonCandidate(o.content) IN
         IF ~t.valid THEN <<FallbackFinding>>
         ELSE IF t.value.kind = "scalar" THEN <<ErrorFinding>>
         ELSE LET r == FilterFrom(t.value.items, 1,
                                  from_string(floor), <<>>) IN
              IF r.raised THEN <<ErrorFinding>> ELSE r.issues

(* -------------- analyze_plan.py: the report and the decision ----------- *)

\* Line 264: the keys of severity_counts, in the order of the dict.
CountedSeverities == <<critical, high, medium, low>>

\* Lines 265-268.
CountOf(list, key) ==
    Cardinality({ k \in 1..Len(list) :
                    lower(SeverityOr(list[k], <<>>).text) = key })

\* Lines 271-272: one row for each key.
SeverityRows(list) ==
    [n \in 1..Len(CountedSeverities) |->
        [severity |-> upper(CountedSeverities[n]),
         count |-> CountOf(list, CountedSeverities[n])]]

\* Lines 278-286: the heading of a finding, with the defaults of the fields
\* it lacks.
Heading(issue) ==
    [severity |-> upper(SeverityOr(issue, <<"U", "N", "K", "N", "O", "W", "N">>).text),
     resource_type |-> IF issue.resource_type # Missing
                       THEN issue.resource_type ELSE "Unknown",
     resource_name |-> IF issue.resource_name # Missing
                       THEN issue.resource_name ELSE "Unknown"]

\* Lines 212-298.
generate_markdown_report(list, doc) ==
    [written |-> FALSE,
     has_plan_summary |-> doc.truthy,
     plan_summary |-> IF doc.truthy THEN generate_plan_summary(doc)
                      ELSE EmptySummary,
     total |-> Len(list),
     severity_counts |-> SeverityRows(list),
     findings |-> [k \in 1..Len(list) |-> Heading(list[k])]]

\* Line 305: severity_levels, in the order of the dict.
severity_levels ==
    <<[sev |-> critical, level |-> 3], [sev |-> high, level |-> 2],
      [sev |-> medium, level |-> 1], [sev |-> low, level |-> 0]>>

\* Lines 308-311.
RECURSIVE HighestFrom(_, _, _)
HighestFrom(list, k, highest) ==
    IF k > Len(list) THEN highest
    ELSE LET sev == lower(SeverityOr(list[k], <<>>).text)
             known == { n \in 1..Len(severity_levels) :
                          severity_levels[n].sev = sev } IN
         IF known # {} /\ severity_levels[CHOOSE n \in known : TRUE].level > highest
         THEN HighestFrom(list, k + 1,
                          severity_levels[CHOOSE n \in known : TRUE].level)
         ELSE HighestFrom(list, k + 1, highest)

\* Lines 300-317.
get_highest_severity(list) ==
    IF list = <<>> THEN none
    ELSE LET highest == HighestFrom(list, 1, -1)
             at == { n \in 1..Len(severity_levels) :
                       severity_levels[n].level = highest } IN
         IF at # {} THEN severity_levels[CHOOSE n \in at : TRUE].sev
         ELSE none

\* Mutant of ShouldFail: the list is not tested for being empty.
ShouldFail_NoLengthTest(highest, level, list) ==
    SeverityValue[from_string(highest)] >= SeverityValue[from_string(level)]

\* Lines 361-364.
ShouldFail(highest, level, list) ==
    /\ SeverityValue[from_string(highest)] >= SeverityValue[from_string(level)]
    /\ Len(list) > 0

(* ----------------------- analyze_plan.py: main() ----------------------- *)

fetch == <<args, pc, step2, run_id_to_use, step3, plan_id, outcome,
           outcome_status, exit_status, requests, slept>>

\* fetch_tfc_plan.py is not running.
FetchIdle ==
    /\ run_id = None
    /\ pr_number = None
    /\ branch = None
    /\ max_wait_minutes = 0
    /\ pc = "idle"
    /\ runs_data = <<>>
    /\ i = 1
    /\ matching_runs = <<>>
    /\ run_id_to_use = None
    /\ run_url = None
    /\ run_status = None
    /\ run_rels = None
    /\ max_retries = 0
    /\ retry_count = 0
    /\ plan_id = None
    /\ outcome = "running"
    /\ outcome_status = None
    /\ exit_status = -1
    /\ requests = [workspace |-> 0, runs |-> 0, config_version |-> 0,
                   run |-> 0, plan |-> 0]
    /\ slept = 0
    /\ listed = -1
    /\ cv_failed = {}
    /\ first_status = None
    /\ seen_terminal = FALSE

\* Lines 320-331: the arguments; argparse admits the four levels only.
MainInit ==
    /\ FetchIdle
    /\ main_pc = "load"
    /\ severity_threshold \in LevelChoices
    /\ fail_level \in LevelChoices
    /\ plan_data = EmptyDocument
    /\ changes = <<>>
    /\ summary = EmptySummary
    /\ oracle = NotCalled
    /\ issues = <<>>
    /\ report = NoReport
    /\ highest_severity = none
    /\ main_exit = -1
    /\ label = <<>>
    /\ member = None

\* Lines 33-40 and 337: the plan is loaded, or main() exits with status 1.
LoadPlan ==
    /\ main_pc = "load"
    /\ \/ \E doc \in MainPlanDocuments :
            /\ plan_data' = doc
            /\ main_pc' = "extract_changes"
            /\ UNCHANGED main_exit
       \/ /\ main_exit' = 1
          /\ main_pc' = "done"
          /\ UNCHANGED plan_data
    /\ UNCHANGED <<fetch, label, member, severity_threshold, fail_level, changes, summary,
                   oracle, issues, report, highest_severity>>

\* Line 340.
ExtractChanges ==
    /\ main_pc = "extract_changes"
    /\ changes' = extract_plan_changes(plan_data)
    /\ main_pc' = "analyze"
    /\ UNCHANGED <<fetch, label, member, severity_threshold, fail_level, plan_data, summary,
                   oracle, issues, report, highest_severity, main_exit>>

\* Line 343: the call of the oracle and what is made of it.
Analyze ==
    /\ main_pc = "analyze"
    /\ \E o \in OracleOutcomes(MaxIssues) :
         /\ oracle' = o
         /\ issues' = analyze_plan_with_gemini(o, severity_threshold)
    /\ main_pc' = "report"
    /\ UNCHANGED <<fetch, label, member, severity_threshold, fail_level, plan_data, changes,
                   summary, report, highest_severity, main_exit>>

\* Lines 346-350: the report is generated and written.
WriteReport ==
    /\ main_pc = "report"
    /\ report' = [generate_markdown_report(issues, plan_data)
                    EXCEPT !.written = TRUE]
    /\ main_pc' = "decide"
    /\ UNCHANGED <<fetch, label, member, severity_threshold, fail_level, plan_data, changes,
                   summary, oracle, issues, highest_severity, main_exit>>

\* Lines 353-369: the outputs and the exit status.
Decide ==
    /\ main_pc = "decide"
    /\ highest_severity' = get_highest_severity(issues)
    /\ main_exit' = IF ShouldFail(highest_severity', fail_level, issues)
                    THEN 1 ELSE 0
    /\ main_pc' = "done"
    /\ UNCHANGED <<fetch, label, member, severity_threshold, fail_level, plan_data, changes,
                   summary, oracle, issues, report>>

MainNext ==
    \/ LoadPlan
    \/ ExtractChanges
    \/ Analyze
    \/ WriteReport
    \/ Decide

MainSpec == MainInit /\ [][MainNext]_vars

(* The Plan Differ's two functions, applied to every plan document.        *)

DifferInit ==
    /\ FetchIdle
    /\ main_pc = "differ"
    /\ severity_threshold = medium
    /\ fail_level = high
    /\ plan_data \in PlanDocuments(MaxChanges)
    /\ changes = <<>>
    /\ summary = EmptySummary
    /\ oracle = NotCalled
    /\ issues = <<>>
    /\ report = NoReport
    /\ highest_severity = none
    /\ main_exit = -1
    /\ label = <<>>
    /\ member = None

ApplyExtractPlanChanges ==
    /\ main_pc = "differ"
    /\ changes' = extract_plan_changes(plan_data)
    /\ main_pc' = "summarize"
    /\ UNCHANGED <<fetch, label, member, severity_threshold, fail_level, plan_data, summary,
                   oracle, issues, report, highest_severity, main_exit>>

ApplyGeneratePlanSummary ==
    /\ main_pc = "summarize"
    /\ summary' = generate_plan_summary(plan_data)
    /\ main_pc' = "differ_done"
    /\ UNCHANGED <<fetch, label, member, severity_threshold, fail_level, plan_data, changes,
                   oracle, issues, report, highest_severity, main_exit>>

DifferNext == ApplyExtractPlanChanges \/ ApplyGeneratePlanSummary

DifferSpec == DifferInit /\ [][DifferNext]_vars

(* ------------------------ claims on analyze_plan.py -------------------- *)

\* The oracle answered and analyze_plan_with_gemini has returned.
Normalized == main_pc \in {"report", "decide", "done"} /\ oracle.called

\* main() went through to its last line.
Decided == main_pc = "done" /\ report.written

\* The ordinal of a finding, a missing or unrecognized label read as LOW.
Ordinal(issue) ==
    SeverityValue[from_string(SeverityOr(issue, <<"L", "O", "W">>).text)]

Floor == SeverityValue[from_string(severity_threshold)]

IsFallbackFinding(f) ==
    /\ f.severity = SevStr(<<"M", "E", "D", "I", "U", "M">>)
    /\ f.resource_type = "general"
    /\ f.resource_name = "plan-wide"

IsErrorFinding(f) ==
    /\ f.severity = SevStr(<<"H", "I", "G", "H">>)
    /\ f.resource_type = "error"
    /\ f.resource_name = "analysis-failed"

\* C12: when the oracle answered, every finding returned is at or above the
\* floor; an answer that does not decode gives the one MEDIUM 'general'
\* finding when the floor is LOW or MEDIUM, and nothing above that.
C12_ReturnedFindingsReachFloor ==
    (Normalized /\ ~oracle.raised) =>
        /\ \A k \in 1..Len(issues) : Ordinal(issues[k]) >= Floor
        /\ ~JsonCandidate(oracle.content).valid =>
              IF Floor <= SeverityValue.MEDIUM
              THEN Len(issues) = 1 /\ IsFallbackFinding(issues[1])
              ELSE issues = <<>>

\* C13: when the call of the oracle fails, the list is the one HIGH
\* 'error' / 'analysis-failed' finding whatever the floor; main() does not
\* stop there, and the report is written with that finding.
C13_FailedCallGivesErrorFinding ==
    (Normalized /\ oracle.raised) =>
        /\ Len(issues) = 1
        /\ IsErrorFinding(issues[1])
        /\ main_pc # "done" => main_exit = -1
        /\ main_pc \in {"decide", "done"} =>
              /\ report.written
              /\ report.total = 1
              /\ report.findings[1].resource_name = "analysis-failed"

C13_Witness ==
    /\ Decided
    /\ oracle.raised
    /\ severity_threshold = critical
    /\ fail_level = critical
    /\ Len(issues) = 1
    /\ report.total = 1
    /\ main_exit = 0

\* C14: when the oracle answered and the JSON candidate decodes, whatever
\* its shape, no finding returned is the 'analysis-failed' one.
C14_ErrorFindingOnlyForFailedCall ==
    (Normalized /\ ~oracle.raised /\ JsonCandidate(oracle.content).valid) =>
        \A k \in 1..Len(issues) : ~IsErrorFinding(issues[k])

\* C15: the report has the four severity-count rows CRITICAL, HIGH, MEDIUM
\* and LOW, and their counts add up to the number of findings.
C15_SeverityRowsSumToTotal ==
    report.written =>
        /\ Len(report.severity_counts) = 4
        /\ [n \in 1..4 |-> report.severity_counts[n].severity]
             = <<upper(critical), upper(high), upper(medium), upper(low)>>
        /\ report.severity_counts[1].count + report.severity_counts[2].count
             + report.severity_counts[3].count + report.severity_counts[4].count
             = Len(issues)

\* The largest ordinal of a list that is not empty.
MaxOrdinal(list) ==
    CHOOSE m \in { Ordinal(list[k]) : k \in 1..Len(list) } :
        \A k \in 1..Len(list) : Ordinal(list[k]) <= m

LabelOfOrdinal == <<low, medium, high, critical>>

\* C16: highest_severity is the label of the largest ordinal of the
\* findings, and 'none' exactly when there is no finding.
C16_HighestSeverityIsMaxOrdinal ==
    Decided =>
        IF issues = <<>> THEN highest_severity = none
        ELSE highest_severity = LabelOfOrdinal[MaxOrdinal(issues) + 1]

\* C17: main() exits with a status that is not zero exactly when there is a
\* finding and the largest ordinal of the findings is at or above the fail
\* level; otherwise with zero.
C17_ExitDecision ==
    Decided =>
        /\ main_exit \in {0, 1}
        /\ main_exit # 0 <=>
              /\ issues # <<>>
              /\ MaxOrdinal(issues) >= SeverityValue[from_string(fail_level)]

\* Findings HIGH and LOW with fail level high: status 1, highest 'high'.
C17_Witness ==
    /\ Decided
    /\ Len(issues) = 2
    /\ issues[1].severity.text = <<"H", "I", "G", "H">>
    /\ issues[2].severity.text = <<"L", "O", "W">>
    /\ fail_level = high
    /\ highest_severity = high
    /\ main_exit = 1

\* C18: whenever highest_severity is 'none' the exit status is zero.
C18_NoneNeverFails ==
    (Decided /\ highest_severity = none) => main_exit = 0

(* --------------------------- the Plan Differ --------------------------- *)

Differed == main_pc = "differ_done"

ActionSet(change) == { change.actions[j] : j \in 1..Len(change.actions) }

InBucket(bucket, change) ==
    \E j \in 1..Len(bucket) : bucket[j].name = change.name

InChanges(change) ==
    \E j \in 1..Len(changes) :
        /\ changes[j].resource_name = change.name
        /\ changes[j].actions = change.actions

\* C19: an entry whose actions are exactly {no-op} is in no bucket and not
\* in the change list, and each total is the length of its bucket.
C19_NoOpIsLeftOut ==
    Differed =>
        /\ \A k \in 1..Len(plan_data.resource_changes) :
              LET change == plan_data.resource_changes[k] IN
              ActionSet(change) = {"no-op"} =>
                  /\ ~InBucket(summary.add, change)
                  /\ ~InBucket(summary.change, change)
                  /\ ~InBucket(summary.delete, change)
                  /\ ~InChanges(change)
        /\ summary.totals.add = Len(summary.add)
        /\ summary.totals.change = Len(summary.change)
        /\ summary.totals.delete = Len(summary.delete)
        /\ summary.totals.add + summary.totals.change + summary.totals.delete
             <= Cardinality({ k \in 1..Len(plan_data.resource_changes) :
                    ActionSet(plan_data.resource_changes[k]) # {"no-op"} })

C19_Witness ==
    /\ Differed
    /\ Len(plan_data.resource_changes) = 2
    /\ plan_data.resource_changes[1].actions = <<"no-op">>
    /\ plan_data.resource_changes[2].actions = <<"update">>
    /\ Len(changes) = 1
    /\ summary.totals = [add |-> 0, change |-> 1, delete |-> 0]

\* The bucket an entry belongs to, "none" for none.
BucketOf(change) ==
    IF "create" \in ActionSet(change) THEN "add"
    ELSE IF {"update", "replace"} \cap ActionSet(change) # {} THEN "change"
    ELSE IF "delete" \in ActionSet(change) THEN "delete"
    ELSE "none"

\* C20: an entry whose actions are not exactly {no-op} is in the change
\* list and in the one bucket its actions give it: add if it creates, else
\* change if it updates or replaces (labelled update if it updates, else
\* replace), else delete if it deletes, else none.
C20_OneBucketByPrecedence ==
    Differed =>
        \A k \in 1..Len(plan_data.resource_changes) :
            LET change == plan_data.resource_changes[k] IN
            ActionSet(change) # {"no-op"} =>
                /\ InChanges(change)
                /\ InBucket(summary.add, change) <=> BucketOf(change) = "add"
                /\ InBucket(summary.change, change)
                     <=> BucketOf(change) = "change"
                /\ InBucket(summary.delete, change)
                     <=> BucketOf(change) = "delete"
                /\ \A j \in 1..Len(summary.change) :
                     summary.change[j].name = change.name =>
                         summary.change[j].action =
                             IF "update" \in ActionSet(change) THEN "update"
                             ELSE "replace"

\* One creation and one deletion; a third entry, if any, is in no bucket.
C20_Witness ==
    /\ Differed
    /\ Len(plan_data.resource_changes) >= 2
    /\ plan_data.resource_changes[1].actions = <<"create">>
    /\ plan_data.resource_changes[2].actions = <<"delete">>
    /\ summary.totals = [add |-> 1, change |-> 0, delete |-> 1]
    /\ Len(changes) = Len(plan_data.resource_changes)

(* ---------------------- more claims on the poller ---------------------- *)

FailureStatuses == {"errored", "canceled", "discarded"}

\* C21: when a status check of the wait loop is the first one to return
\* errored, canceled or discarded, the invocation ends at that check with
\* RunFailed carrying the status: with k - 1 sleeps behind it the check is the
\* k-th status request and the last one, and the timeout is not reached.
C21_FailureFoundInLoop ==
    ( /\ first_status # None
      /\ first_status \notin FailureStatuses
      /\ run_status \in FailureStatuses )
    => /\ pc = "done"
       /\ outcome = "RunFailed"
       /\ outcome_status = run_status
       /\ exit_status = 1
       /\ retry_count >= 1
       /\ retry_count <= max_wait_minutes * ChecksPerMinute
       /\ requests.run = retry_count + 1
       /\ slept = retry_count * PollInterval
       /\ plan_id = None
       /\ requests.plan = 0

\* The third check is the first one to return errored.
C21_Witness ==
    /\ first_status = "planning"
    /\ run_status = "errored"
    /\ requests.run = 3
    /\ retry_count = 2
    /\ retry_count < max_retries
    /\ outcome = "RunFailed"
    /\ outcome_status = "errored"

\* The requests issued so far, all kinds together.
AllRequests(req) ==
    req.workspace + req.runs + req.config_version + req.run + req.plan

\* C22: the workspace, the run list and the plan document are requested at
\* most once each, and a configuration version at most once for each run of
\* the list; the status is requested once and then once for each iteration
\* of the wait loop; and once a request of the workspace, run-list,
\* run-status or plan-document step has failed, the invocation has ended
\* with exit status 1 and issues no request any more.
C22_NoCallIsRetried ==
    [][ /\ requests'.workspace <= 1
        /\ requests'.runs <= 1
        /\ requests'.plan <= 1
        /\ requests'.run <= 1 + retry_count'
        /\ pc' \in {"match", "step3"} => requests'.config_version < i'
        /\ AllRequests(requests') <= AllRequests(requests) + 1
        /\ outcome' = "TransportError" => pc' = "done" /\ exit_status' = 1
        /\ outcome = "TransportError" => requests' = requests /\ pc' = "done"
      ]_vars

\* A status request of the wait loop failed.
C22_Witness ==
    /\ outcome = "TransportError"
    /\ exit_status = 1
    /\ requests.run = 2
    /\ retry_count = 1
    /\ requests.plan = 0
    /\ first_status = "planning"

\* C24: when the plan document is about to be requested or has been
\* requested, the last status check of the run returned a plan-ready status
\* and the plan id is the one of that same run document.
C24_PlanRequestedOnlyWhenReady ==
    (pc = "plan" \/ requests.plan > 0) =>
        /\ requests.run >= 1
        /\ run_status \in ReadyStatuses
        /\ run_rels = "plan_with_id"
        /\ plan_id # None
        /\ plan_id = "plan-1"
        /\ requests.plan <= 1

\* The plan is requested after a wait that ended with a plan-ready status.
C24_Witness ==
    /\ requests.plan = 1
    /\ outcome = "PlanFetched"
    /\ first_status = "pending"
    /\ retry_count = 2
    /\ run_status = "applied"
    /\ plan_id = "plan-1"

\* A status of none of the three lists.
UnknownStatus(status) ==
    /\ status # None
    /\ status \notin ReadyStatuses \cup InProgressStatuses \cup FailureStatuses

\* C25: while the last status returned is in none of the three lists, no
\* plan id is extracted, no plan is requested and RunFailed is not
\* signalled: the invocation is in the wait loop, or it ended with
\* PollTimeout carrying that status after max_wait_minutes * 6 iterations,
\* or a later status request failed.
C25_UnknownStatusIsWaitedOn ==
    UnknownStatus(run_status) =>
        /\ plan_id = None
        /\ requests.plan = 0
        /\ outcome \in {"running", "PollTimeout", "TransportError"}
        /\ outcome = "running" =>
              /\ pc = "wait"
              /\ retry_count <= max_wait_minutes * ChecksPerMinute
        /\ outcome = "PollTimeout" =>
              /\ pc = "done"
              /\ exit_status = 1
              /\ outcome_status = run_status
              /\ retry_count = max_wait_minutes * ChecksPerMinute
              /\ requests.run = retry_count + 1
              /\ slept = retry_count * PollInterval

\* A wait of one minute in which no check returned a terminal status; the
\* first check and the last one returned the unknown status.
C25_Witness ==
    /\ outcome = "PollTimeout"
    /\ outcome_status = "plan_queued"
    /\ first_status = "plan_queued"
    /\ ~seen_terminal
    /\ max_wait_minutes = 1
    /\ retry_count = 6
    /\ requests.run = 7

(* ----------------- Severity.from_string, applied to labels ------------- *)

\* A word in every letter case.
CaseVariants(w) ==
    { [k \in 1..Len(w) |-> IF up[k] THEN upper(<<w[k]>>)[1] ELSE w[k]] :
        up \in [1..Len(w) -> BOOLEAN] }

\* The labels from_string is applied to: the four levels in every letter
\* case, and strings that are none of them.
Labels ==
    CaseVariants(low) \cup CaseVariants(medium) \cup CaseVariants(high)
    \cup CaseVariants(critical)
    \cup { <<>>, none, <<"N", "O", "N", "E">>, <<"i", "n", "f", "o">>,
           <<"l", "o">>, <<"l", "o", "w", "s">>, <<"H", "I", "G", "H", "E", "R">>,
           <<" ", "h", "i", "g", "h">>, <<"h", "i", "g", "h", " ">>,
           <<"m", "e", "d">>, <<"c", "r", "i", "t">>, <<"3">>,
           <<"U", "N", "K", "N", "O", "W", "N">> }

SeverityInit ==
    /\ FetchIdle
    /\ main_pc = "from_string"
    /\ severity_threshold = medium
    /\ fail_level = high
    /\ plan_data = EmptyDocument
    /\ changes = <<>>
    /\ summary = EmptySummary
    /\ oracle = NotCalled
    /\ issues = <<>>
    /\ report = NoReport
    /\ highest_severity = none
    /\ main_exit = -1
    /\ label \in Labels
    /\ member = None

ApplyFromString ==
    /\ main_pc = "from_string"
    /\ member' = from_string(label)
    /\ main_pc' = "converted"
    /\ UNCHANGED <<fetch, label, severity_threshold, fail_level, plan_data,
                   changes, summary, oracle, issues, report, highest_severity,
                   main_exit>>

SeverityNext == ApplyFromString

SeveritySpec == SeverityInit /\ [][SeverityNext]_vars

\* The label is the word, letter by letter, in whatever case.
SameWord(s, w) ==
    /\ Len(s) = Len(w)
    /\ \A k \in 1..Len(w) :
          \/ s[k] = w[k]
          \/ \E n \in 1..Len(LowerCase) :
                LowerCase[n] = w[k] /\ UpperCase[n] = s[k]

\* C23: from_string gives LOW (0), MEDIUM (1), HIGH (2), CRITICAL (3) for
\* low, medium, high, critical in any letter case, and LOW for every other
\* label.
C23_FromString ==
    main_pc = "converted" =>
        IF SameWord(label, medium)
        THEN member = "MEDIUM" /\ SeverityValue[member] = 1
        ELSE IF SameWord(label, high)
        THEN member = "HIGH" /\ SeverityValue[member] = 2
        ELSE IF SameWord(label, critical)
        THEN member = "CRITICAL" /\ SeverityValue[member] = 3
        ELSE member = "LOW" /\ SeverityValue[member] = 0

C23_Witness ==
    /\ main_pc = "converted"
    /\ label = <<"C", "r", "I", "t", "i", "C", "a", "L">>
    /\ member = "CRITICAL"

====
